---- MODULE Spec2Model ----
(*************************************************************************)
(* Federated REINFORCE agent (CartPole notebook): the policy lives on    *)
(* the virtual worker bob; the training loop sends each observation to   *)
(* bob, evaluates the policy there, gets the probabilities back, samples *)
(* locally, and updates the policy once per episode.                     *)
(*************************************************************************)
EXTENDS Integers, Sequences, FiniteSets, TLC

\* ---------------------------------------------------------------- bounds
\* range(500) of the episode loop, cut down
NumEpisodes == 2
\* range(1000) of the step loop, cut down
MaxSteps == 3
\* number of send/get operations the worker harness (SpecCtx) performs
MaxOps == 4

\* ------------------------------------------------------ program constants
\* discount_rate = 0.95, in hundredths
DiscountPct == 95

\* fixed-point unit of a return: 0.95^(MaxSteps-1) is then a whole number
Scale == 100 ^ (MaxSteps - 1)

\* what the environment collaborator can hand back
Observations == {1, 2}
Rewards == {0, 1}
Actions == {0, 1}

\* nn.Linear(4, 4) and nn.Linear(4, 2): two weights and two biases
ParamSeq == <<"input.weight", "input.bias", "output.weight", "output.bias">>
Params == {ParamSeq[i] : i \in 1..Len(ParamSeq)}

VARIABLES
    pc,                  \* position of the notebook's control flow
    episode,             \* for episode in range(...)
    step,                \* for step in range(...)
    state,               \* the loop's `state`: the current observation
    episode_rewards,     \* running total of the episode
    total_rewards,       \* reward history of the run
    episode_log_probs,   \* policy.episode_log_probs
    episode_raw_rewards, \* policy.episode_raw_rewards
    discounted_rewards,  \* update_policy's local: what the normalizer returned
    state_ptr,           \* select_action's `state` after send: id on bob, 0 = none
    probs_ptr,           \* select_action's `probs` before get: id on bob, 0 = none
    probs,               \* select_action's `probs` after get
    action,              \* the sampled action
    policy_owner,        \* per parameter: "Local", "Remote" or "Destroyed"
    policy_ptr,          \* per parameter: id on bob, 0 = none
    param_ver,           \* number of optimizer steps applied to the parameters
    bob_objects,         \* bob._objects: id -> tensor
    next_id,             \* next fresh tensor id
    ret,                 \* harness only: what the most recent get returned
    err,                 \* exception raised, "none" if none
    env_steps,           \* env.step calls of the current episode
    updates,             \* update_policy calls that returned
    resets,              \* env.reset calls
    n_send,              \* send operations of the current select_action call
    n_get,               \* get operations of the current select_action call
    sent,                \* harness only: id -> tensor as it was sent
    done,                \* the loop's `done`, as env.step last returned it
    discounted_list,     \* update_policy's local: the returns before normalizing
    reported,            \* what the final print shows
    run_rewards,         \* sum of all rewards env.step returned in the run
    clears               \* bob.clear_objects calls

vars == <<pc, episode, step, state, episode_rewards, total_rewards,
          episode_log_probs, episode_raw_rewards, discounted_rewards,
          state_ptr, probs_ptr, probs, action, policy_owner, policy_ptr,
          param_ver,
          bob_objects, next_id, ret, err, env_steps, updates, resets, n_send,
          n_get, sent, done, discounted_list, reported, run_rewards, clears>>

loopVars == <<episode, step, state, episode_rewards, total_rewards>>
bufVars == <<episode_log_probs, episode_raw_rewards, discounted_rewards>>
saVars == <<state_ptr, probs_ptr, probs, action>>
policyVars == <<policy_owner, policy_ptr, param_ver>>
ghostVars == <<env_steps, updates, resets, n_send, n_get>>
runVars == <<done, discounted_list, reported, run_rewards, clears>>
NoReport == [mean_cents |-> -1, max |-> -1]

NoTensor == [kind |-> "none"]
ObsTensor(o) == [kind |-> "obs", val |-> o]
ProbsTensor(o, v, valid) == [kind |-> "probs", val |-> o, ver |-> v, valid |-> valid]
ParamTensor(p) == [kind |-> "param", name |-> p]

\* ------------------------------------------------- the worker's operations
\* tensor.send(bob): bob stores the tensor under a fresh id
send(objs, id, t) == [h \in DOMAIN objs \cup {id} |-> IF h = id THEN t ELSE objs[h]]

\* mutant of retrieve: get hands back a copy and bob keeps the tensor
retrieve_keeps(objs, h) ==
    IF h \in DOMAIN objs
    THEN [ok |-> TRUE, val |-> objs[h], objs |-> objs]
    ELSE [ok |-> FALSE, val |-> NoTensor, objs |-> objs]

\* pointer.get(): bob hands the tensor back and forgets it; an id bob does not
\* hold is an error and leaves bob as it was
retrieve(objs, h) ==
    IF h \in DOMAIN objs
    THEN [ok |-> TRUE, val |-> objs[h],
          objs |-> [k \in DOMAIN objs \ {h} |-> objs[k]]]
    ELSE [ok |-> FALSE, val |-> NoTensor, objs |-> objs]

\* bob.clear_objects(): bob forgets everything it holds
clear_objects(objs) == [h \in {} |-> NoTensor]

\* model.send(bob): every parameter moves, each under its own id
send_model(objs, id) ==
    [h \in DOMAIN objs \cup {id + i - 1 : i \in 1..Len(ParamSeq)} |->
        IF h \in DOMAIN objs THEN objs[h] ELSE ParamTensor(ParamSeq[h - id + 1])]

\* model.get(): every parameter comes back
get_model(objs, ptrs) == [h \in DOMAIN objs \ {ptrs[p] : p \in Params} |-> objs[h]]

\* the forward pass can run on bob when bob holds all parameters and the input
CanForward(objs, owner, ptrs, h) ==
    /\ \A p \in Params : owner[p] = "Remote" /\ ptrs[p] \in DOMAIN objs
    /\ h \in DOMAIN objs
    /\ objs[h].kind = "obs"

Init ==
    /\ pc = "send_policy"
    /\ episode = 0
    /\ step = 0
    /\ state = 0
    /\ episode_rewards = 0
    /\ total_rewards = <<>>
    /\ episode_log_probs = <<>>
    /\ episode_raw_rewards = <<>>
    /\ discounted_rewards = <<>>
    /\ state_ptr = 0
    /\ probs_ptr = 0
    /\ probs = NoTensor
    /\ action = 0
    /\ policy_owner = [p \in Params |-> "Local"]
    /\ policy_ptr = [p \in Params |-> 0]
    /\ param_ver = 0
    /\ bob_objects = [h \in {} |-> NoTensor]
    /\ next_id = 1
    /\ ret = NoTensor
    /\ err = "none"
    /\ env_steps = 0
    /\ updates = 0
    /\ resets = 0
    /\ n_send = 0
    /\ n_get = 0
    /\ sent = [h \in {} |-> NoTensor]
    /\ done = FALSE
    /\ discounted_list = <<>>
    /\ reported = NoReport
    /\ run_rewards = 0
    /\ clears = 0

\* an exception leaves the cell: nothing after the raising statement runs
Raise(e) ==
    /\ pc' = "aborted"
    /\ err' = e

\* mutant of PolicySend: only the input layer's parameters move to bob
PolicySend_Partial ==
    /\ pc = "send_policy"
    /\ bob_objects' = send(send(bob_objects, next_id, ParamTensor(ParamSeq[1])),
                           next_id + 1, ParamTensor(ParamSeq[2]))
    /\ policy_owner' = [p \in Params |->
                          IF p \in {ParamSeq[1], ParamSeq[2]} THEN "Remote"
                          ELSE "Local"]
    /\ policy_ptr' = [p \in Params |->
                        IF p = ParamSeq[1] THEN next_id
                        ELSE IF p = ParamSeq[2] THEN next_id + 1 ELSE 0]
    /\ next_id' = next_id + 2
    /\ pc' = IF NumEpisodes > 0 THEN "reset" ELSE "policy_get"
    /\ UNCHANGED <<loopVars, bufVars, saVars, param_ver, ret, err, ghostVars, sent, runVars>>

\* policy.send(bob)
PolicySend ==
    /\ pc = "send_policy"
    /\ bob_objects' = send_model(bob_objects, next_id)
    /\ policy_owner' = [p \in Params |-> "Remote"]
    /\ policy_ptr' = [p \in Params |->
                        next_id - 1 + CHOOSE i \in 1..Len(ParamSeq) : ParamSeq[i] = p]
    /\ next_id' = next_id + Len(ParamSeq)
    /\ pc' = IF NumEpisodes > 0 THEN "reset" ELSE "policy_get"
    /\ UNCHANGED <<loopVars, bufVars, saVars, param_ver, ret, err, ghostVars, sent, runVars>>

\* state = env.reset(); episode_rewards = 0; the step loop starts
Reset ==
    /\ pc = "reset"
    /\ \E o \in Observations : state' = o
    /\ episode_rewards' = 0
    /\ step' = 0
    /\ env_steps' = 0
    /\ resets' = resets + 1
    /\ pc' = "sa_send"
    /\ UNCHANGED <<episode, total_rewards, bufVars, saVars, policyVars,
                   bob_objects, next_id, ret, err, updates, n_send, n_get, sent, runVars>>

\* ------------------------------------------------------ the return normalizer
\* the backward loop: cumulative = reward + discount_rate * cumulative, each
\* value inserted at the front
RECURSIVE Discount_Appended(_)
\* mutant of Discount: each value is appended, not inserted at the front, so
\* the returns come out in reverse order
Discount_Appended(rewards) ==
    IF rewards = <<>> THEN <<>>
    ELSE LET rest == Discount_Appended(Tail(rewards))
             cumulative == IF rest = <<>> THEN 0 ELSE rest[Len(rest)]
         IN  Append(rest, Head(rewards) * Scale + (DiscountPct * cumulative) \div 100)

RECURSIVE Discount(_)
Discount(rewards) ==
    IF rewards = <<>> THEN <<>>
    ELSE LET rest == Discount(Tail(rewards))
             cumulative == IF rest = <<>> THEN 0 ELSE rest[1]
         IN  <<Head(rewards) * Scale + (DiscountPct * cumulative) \div 100>> \o rest

RECURSIVE SeqSum(_)
SeqSum(s) == IF s = <<>> THEN 0 ELSE Head(s) + SeqSum(Tail(s))

\* tensor.std() is the sample standard deviation: it divides by n - 1, so one
\* value has no standard deviation (NaN), and equal values have 0
StdIsNaN(G) == Len(G) < 2
StdIsZero(G) == Len(G) >= 2 /\ \A i \in 1..Len(G) : G[i] = G[1]

\* mutant of Normalize: the mean is not subtracted
Normalize_NotCentred(G) ==
    [i \in 1..Len(G) |->
        IF StdIsNaN(G) \/ StdIsZero(G)
        THEN [nan |-> TRUE, num |-> 0]
        ELSE [nan |-> FALSE, num |-> Len(G) * G[i]]]

\* (G - G.mean()) / G.std(): nothing checks the divisor, a NaN or zero one
\* turns every element into NaN; otherwise the element is its centred value
\* (times n, over the common positive divisor n * std)
Normalize(G) ==
    [i \in 1..Len(G) |->
        IF StdIsNaN(G) \/ StdIsZero(G)
        THEN [nan |-> TRUE, num |-> 0]
        ELSE [nan |-> FALSE, num |-> Len(G) * G[i] - SeqSum(G)]]

\* the discounted returns are computed once (the loop), then normalised
discount_and_normailze_rewards(rewards) ==
    CHOOSE normalized \in {Normalize(G) : G \in {Discount(rewards)}} : TRUE

\* ------------------------------------------------------------ select_action
\* mutant of SaSend: the observation is not sent, it stays a local tensor
SaSend_Local ==
    /\ pc = "sa_send"
    /\ state_ptr' = 0
    /\ probs_ptr' = 0
    /\ probs' = NoTensor
    /\ n_send' = 0
    /\ n_get' = 0
    /\ pc' = "sa_forward"
    /\ UNCHANGED <<loopVars, bufVars, action, policyVars, bob_objects, next_id,
                   ret, err, env_steps, updates, resets, sent, runVars>>

\* state = torch.from_numpy(state)...; state = state.send(bob)
SaSend ==
    /\ pc = "sa_send"
    /\ bob_objects' = send(bob_objects, next_id, ObsTensor(state))
    /\ state_ptr' = next_id
    /\ next_id' = next_id + 1
    /\ probs_ptr' = 0
    /\ probs' = NoTensor
    /\ n_send' = 1
    /\ n_get' = 0
    /\ pc' = "sa_forward"
    /\ UNCHANGED <<loopVars, bufVars, action, policyVars, ret, err, env_steps,
                   updates, resets, sent, runVars>>

\* probs = policy(state): evaluated on bob, the result stays on bob; the
\* engine's output is a distribution or, with parameters gone bad, a
\* degenerate one
SaForward ==
    /\ pc = "sa_forward"
    /\ IF CanForward(bob_objects, policy_owner, policy_ptr, state_ptr)
       THEN /\ \E valid \in BOOLEAN :
                 bob_objects' = send(bob_objects, next_id,
                                     ProbsTensor(bob_objects[state_ptr].val,
                                                 param_ver, valid))
            /\ probs_ptr' = next_id
            /\ next_id' = next_id + 1
            /\ pc' = "sa_get_probs"
            /\ err' = err
       ELSE /\ Raise("OwnershipError")
            /\ UNCHANGED <<bob_objects, probs_ptr, next_id>>
    /\ UNCHANGED <<loopVars, bufVars, state_ptr, probs, action, policyVars, ret,
                   ghostVars, sent, runVars>>

\* probs = probs.get()
SaGetProbs ==
    /\ pc = "sa_get_probs"
    /\ LET r == retrieve(bob_objects, probs_ptr)
       IN  IF r.ok
           THEN /\ bob_objects' = r.objs
                /\ probs' = r.val
                /\ n_get' = n_get + 1
                /\ pc' = "sa_sample"
                /\ err' = err
           ELSE /\ Raise("OwnershipError")
                /\ UNCHANGED <<bob_objects, probs, n_get>>
    /\ UNCHANGED <<loopVars, bufVars, state_ptr, probs_ptr, action, policyVars,
                   next_id, ret, env_steps, updates, resets, n_send, sent, runVars>>

\* m = Categorical(probs); action = m.sample();
\* policy.episode_log_probs.append(m.log_prob(action)): the entry is kept as
\* the action and the parameter version the distribution came from
SaSample ==
    /\ pc = "sa_sample"
    /\ probs.valid
    /\ \E a \in Actions :
         /\ action' = a
         /\ episode_log_probs' =
              Append(episode_log_probs, [action |-> a, ver |-> probs.ver])
    /\ pc' = "sa_get_state"
    /\ UNCHANGED <<loopVars, episode_raw_rewards, discounted_rewards, state_ptr,
                   probs_ptr, probs, policyVars, bob_objects, next_id, ret, err,
                   ghostVars, sent, runVars>>

\* mutant of SaSample_Fail: the failure is swallowed and the step carries on
\* without a log-probability
SaSample_Fail_Swallowed ==
    /\ pc = "sa_sample"
    /\ ~probs.valid
    /\ pc' = "sa_get_state"
    /\ err' = "DistributionError"
    /\ UNCHANGED <<loopVars, bufVars, saVars, policyVars, bob_objects, next_id,
                   ret, ghostVars, sent, runVars>>

\* mutant of SaSample_Fail: the failure is caught and m.sample() is tried
\* again on the same distribution, for ever
SaSample_Fail_Retried ==
    /\ pc = "sa_sample"
    /\ ~probs.valid
    /\ UNCHANGED vars

\* sampling from a degenerate distribution raises
SaSample_Fail ==
    /\ pc = "sa_sample"
    /\ ~probs.valid
    /\ Raise("DistributionError")
    /\ UNCHANGED <<loopVars, bufVars, saVars, policyVars, bob_objects, next_id,
                   ret, ghostVars, sent, runVars>>

\* mutant of SaGetState: select_action returns without state.get()
SaGetState_NoGet ==
    /\ pc = "sa_get_state"
    /\ state_ptr' = 0
    /\ probs_ptr' = 0
    /\ probs' = NoTensor
    /\ pc' = "env_step"
    /\ UNCHANGED <<loopVars, bufVars, action, policyVars, bob_objects, next_id,
                   ret, err, ghostVars, sent, runVars>>

\* state.get() (what it returns is dropped); return action.item(): the
\* call's locals are gone
SaGetState ==
    /\ pc = "sa_get_state"
    /\ LET r == retrieve(bob_objects, state_ptr)
       IN  IF r.ok
           THEN /\ bob_objects' = r.objs
                /\ n_get' = n_get + 1
                /\ state_ptr' = 0
                /\ probs_ptr' = 0
                /\ probs' = NoTensor
                /\ pc' = "env_step"
                /\ err' = err
           ELSE /\ Raise("OwnershipError")
                /\ UNCHANGED <<bob_objects, n_get, state_ptr, probs_ptr, probs>>
    /\ UNCHANGED <<loopVars, bufVars, action, policyVars, next_id, ret, env_steps,
                   updates, resets, n_send, sent, runVars>>

\* ------------------------------------------------------------ the step loop
\* mutant of EnvStep: `if done: break` sits before `episode_rewards += reward`
EnvStep_BreakBeforeSum ==
    /\ pc = "env_step"
    /\ \E o \in Observations, reward \in Rewards, d \in BOOLEAN :
         /\ state' = o
         /\ episode_raw_rewards' = Append(episode_raw_rewards, reward)
         /\ episode_rewards' = IF d THEN episode_rewards
                              ELSE episode_rewards + reward
         /\ run_rewards' = run_rewards + reward
         /\ done' = d
         /\ IF d \/ step = MaxSteps - 1
            THEN pc' = "append_total" /\ step' = step
            ELSE pc' = "sa_send" /\ step' = step + 1
    /\ env_steps' = env_steps + 1
    /\ UNCHANGED <<episode, total_rewards, episode_log_probs, discounted_rewards,
                   saVars, policyVars, bob_objects, next_id, ret, err, updates,
                   resets, n_send, n_get, sent, discounted_list,
                   reported, clears>>

\* mutant of EnvStep: the optimizer steps after every environment step
EnvStep_StepsOptimizer ==
    /\ pc = "env_step"
    /\ \E o \in Observations, reward \in Rewards, d \in BOOLEAN :
         /\ state' = o
         /\ episode_raw_rewards' = Append(episode_raw_rewards, reward)
         /\ episode_rewards' = episode_rewards + reward
         /\ run_rewards' = run_rewards + reward
         /\ done' = d
         /\ IF d \/ step = MaxSteps - 1
            THEN pc' = "append_total" /\ step' = step
            ELSE pc' = "sa_send" /\ step' = step + 1
    /\ env_steps' = env_steps + 1
    /\ param_ver' = param_ver + 1
    /\ UNCHANGED <<episode, total_rewards, episode_log_probs, discounted_rewards,
                   saVars, policy_owner, policy_ptr, bob_objects, next_id, ret, err, updates,
                   resets, n_send, n_get, sent, discounted_list,
                   reported, clears>>

\* mutant of EnvStep: `if done: break` is missing
EnvStep_NoBreak ==
    /\ pc = "env_step"
    /\ \E o \in Observations, reward \in Rewards, d \in BOOLEAN :
         /\ state' = o
         /\ episode_raw_rewards' = Append(episode_raw_rewards, reward)
         /\ episode_rewards' = episode_rewards + reward
         /\ run_rewards' = run_rewards + reward
         /\ done' = d
         /\ IF step = MaxSteps - 1
            THEN pc' = "append_total" /\ step' = step
            ELSE pc' = "sa_send" /\ step' = step + 1
    /\ env_steps' = env_steps + 1
    /\ UNCHANGED <<episode, total_rewards, episode_log_probs, discounted_rewards,
                   saVars, policyVars, bob_objects, next_id, ret, err, updates,
                   resets, n_send, n_get, sent, discounted_list,
                   reported, clears>>

\* state, reward, done, _ = env.step(action);
\* policy.episode_raw_rewards.append(reward); episode_rewards += reward;
\* if done: break
EnvStep ==
    /\ pc = "env_step"
    /\ \E o \in Observations, reward \in Rewards, d \in BOOLEAN :
         /\ state' = o
         /\ episode_raw_rewards' = Append(episode_raw_rewards, reward)
         /\ episode_rewards' = episode_rewards + reward
         /\ run_rewards' = run_rewards + reward
         /\ done' = d
         /\ IF d \/ step = MaxSteps - 1
            THEN pc' = "append_total" /\ step' = step
            ELSE pc' = "sa_send" /\ step' = step + 1
    /\ env_steps' = env_steps + 1
    /\ UNCHANGED <<episode, total_rewards, episode_log_probs, discounted_rewards,
                   saVars, policyVars, bob_objects, next_id, ret, err, updates,
                   resets, n_send, n_get, sent, discounted_list,
                   reported, clears>>

\* env.step raises
EnvStep_Fail ==
    /\ pc = "env_step"
    /\ Raise("EnvError")
    /\ UNCHANGED <<loopVars, bufVars, saVars, policyVars, bob_objects, next_id,
                   ret, ghostVars, sent, runVars>>

\* mutant of AppendTotal: the episode is recorded but update_policy is not
\* called
AppendTotal_NoUpdate ==
    /\ pc = "append_total"
    /\ total_rewards' = Append(total_rewards, episode_rewards)
    /\ pc' = "updated"
    /\ UNCHANGED <<episode, step, state, episode_rewards, bufVars, saVars,
                   policyVars, bob_objects, next_id, ret, err, ghostVars, sent, runVars>>

\* total_rewards.append(episode_rewards)
AppendTotal ==
    /\ pc = "append_total"
    /\ total_rewards' = Append(total_rewards, episode_rewards)
    /\ pc' = "update"
    /\ UNCHANGED <<episode, step, state, episode_rewards, bufVars, saVars,
                   policyVars, bob_objects, next_id, ret, err, ghostVars, sent, runVars>>

\* ------------------------------------------------------------ update_policy
\* mutant of UpdatePolicy: del policy.episode_raw_rewards[:] is missing
UpdatePolicy_KeepsRewards ==
    /\ pc = "update"
    /\ discounted_list' = Discount(episode_raw_rewards)
    /\ discounted_rewards' = discount_and_normailze_rewards(episode_raw_rewards)
    /\ param_ver' = param_ver + 1
    /\ episode_log_probs' = <<>>
    /\ updates' = updates + 1
    /\ pc' = "updated"
    /\ UNCHANGED <<loopVars, episode_raw_rewards, saVars, policy_owner,
                   policy_ptr, bob_objects, next_id, ret, err, env_steps, resets,
                   n_send, n_get, sent, done, reported,
                   run_rewards, clears>>

\* the whole of update_policy when nothing in it raises: the scores, the
\* loss over zip(log_probs, scores), one optimizer step, then the two dels.
\* torch.cat of an empty list raises.
UpdatePolicy ==
    /\ pc = "update"
    /\ discounted_list' = Discount(episode_raw_rewards)
    /\ discounted_rewards' = discount_and_normailze_rewards(episode_raw_rewards)
    /\ IF episode_log_probs = <<>> \/ episode_raw_rewards = <<>>
       THEN /\ Raise("UpdateError")
            /\ UNCHANGED <<episode_log_probs, episode_raw_rewards, param_ver,
                           updates>>
       ELSE /\ param_ver' = param_ver + 1
            /\ episode_log_probs' = <<>>
            /\ episode_raw_rewards' = <<>>
            /\ updates' = updates + 1
            /\ pc' = "updated"
            /\ err' = err
    /\ UNCHANGED <<loopVars, saVars, policy_owner, policy_ptr, bob_objects,
                   next_id, ret, env_steps, resets, n_send, n_get, sent, done, reported,
                   run_rewards, clears>>

\* backward or the optimizer step raises: the two dels after them do not run
UpdatePolicy_Fail ==
    /\ pc = "update"
    /\ discounted_list' = Discount(episode_raw_rewards)
    /\ discounted_rewards' = discount_and_normailze_rewards(episode_raw_rewards)
    /\ Raise("UpdateError")
    /\ UNCHANGED <<loopVars, episode_log_probs, episode_raw_rewards, saVars,
                   policyVars, bob_objects, next_id, ret, ghostVars, sent, done, reported,
                   run_rewards, clears>>

\* update_policy has returned (its local is gone); the episode loop goes
\* round, or ends
NextEpisode ==
    /\ pc = "updated"
    /\ episode' = episode + 1
    /\ discounted_rewards' = <<>>
    /\ discounted_list' = <<>>
    /\ pc' = IF episode + 1 < NumEpisodes THEN "reset" ELSE "policy_get"
    /\ UNCHANGED <<step, state, episode_rewards, total_rewards,
                   episode_log_probs, episode_raw_rewards, saVars,
                   policyVars, bob_objects, next_id, ret, err, ghostVars, sent, done,
                   reported, run_rewards, clears>>

\* ------------------------------------------------------------------ cleanup
\* mutant of PolicyGet: the cleanup lines are not run, the run goes straight
\* to the report
PolicyGet_NoCleanup ==
    /\ pc = "policy_get"
    /\ pc' = "report"
    /\ UNCHANGED <<loopVars, bufVars, saVars, policyVars, bob_objects, next_id,
                   ret, err, ghostVars, sent, runVars>>

\* mutant of PolicyGet: policy.get() is left out, the cleanup starts with
\* bob.clear_objects()
PolicyGet_Skipped ==
    /\ pc = "policy_get"
    /\ pc' = "clear"
    /\ UNCHANGED <<loopVars, bufVars, saVars, policyVars, bob_objects, next_id,
                   ret, err, ghostVars, sent, runVars>>

\* policy.get()
PolicyGet ==
    /\ pc = "policy_get"
    /\ IF \A p \in Params : policy_owner[p] = "Remote" /\ policy_ptr[p] \in DOMAIN bob_objects
       THEN /\ bob_objects' = get_model(bob_objects, policy_ptr)
            /\ policy_owner' = [p \in Params |-> "Local"]
            /\ policy_ptr' = [p \in Params |-> 0]
            /\ pc' = "clear"
            /\ err' = err
       ELSE /\ Raise("OwnershipError")
            /\ UNCHANGED <<bob_objects, policy_owner, policy_ptr>>
    /\ UNCHANGED <<loopVars, bufVars, saVars, param_ver, next_id, ret, ghostVars,
                   sent, runVars>>

\* bob.clear_objects(): whatever bob still holds is gone, a parameter too
ClearObjects ==
    /\ pc = "clear"
    /\ bob_objects' = clear_objects(bob_objects)
    /\ policy_owner' = [p \in Params |->
                          IF policy_owner[p] = "Remote" THEN "Destroyed"
                          ELSE policy_owner[p]]
    /\ clears' = clears + 1
    /\ pc' = "report"
    /\ UNCHANGED <<loopVars, bufVars, saVars, policy_ptr, param_ver, next_id, ret,
                   err, ghostVars, sent, done, discounted_list, reported,
                   run_rewards>>

\* np.mean: the sum over the count, kept as the two whole numbers
Mean(s) == [num |-> SeqSum(s), den |-> Len(s)]

\* np.max
RECURSIVE SeqMax(_)
SeqMax(s) ==
    IF Len(s) = 1 THEN s[1]
    ELSE LET m == SeqMax(Tail(s)) IN IF Head(s) >= m THEN Head(s) ELSE m

\* '{:.2f}'.format(x): x to the nearest hundredth, in hundredths (the mean of
\* fewer than eight whole totals never lies halfway between two hundredths)
FormatCents(x) == (200 * x.num + x.den) \div (2 * x.den)

\* print(... np.mean(total_rewards), np.max(total_rewards))
Report ==
    /\ pc = "report"
    /\ reported' = [mean_cents |-> FormatCents(Mean(total_rewards)),
                     max |-> SeqMax(total_rewards)]
    /\ pc' = "done"
    /\ UNCHANGED <<loopVars, bufVars, saVars, policyVars, bob_objects, next_id,
                   ret, err, ghostVars, sent, done, discounted_list,
                   run_rewards, clears>>

Next ==
    \/ PolicySend
    \/ Reset
    \/ SaSend
    \/ SaForward
    \/ SaGetProbs
    \/ SaSample
    \/ SaSample_Fail
    \/ SaGetState
    \/ EnvStep
    \/ EnvStep_Fail
    \/ AppendTotal
    \/ UpdatePolicy
    \/ UpdatePolicy_Fail
    \/ NextEpisode
    \/ PolicyGet
    \/ ClearObjects
    \/ Report

Spec == Init /\ [][Next]_vars

\* the notebook is one sequential program: while a statement can run, one does
SpecFair == Spec /\ WF_vars(Next)

\* ------------------------------------------------------- the worker harness
\* Any sequence of sends and gets against the worker, as a caller other than
\* the notebook could issue them.
progVars == <<pc, loopVars, bufVars, saVars, policyVars, ghostVars>>

\* some tensor is sent
CtxSend(t) ==
    /\ next_id <= MaxOps
    /\ bob_objects' = send(bob_objects, next_id, t)
    /\ sent' = send(sent, next_id, t)
    /\ next_id' = next_id + 1
    /\ err' = "none"
    /\ UNCHANGED <<progVars, ret, runVars>>

\* get on a pointer that was handed out, whether or not it was got before
CtxRetrieve(h) ==
    /\ LET r == retrieve(bob_objects, h)
       IN  /\ bob_objects' = r.objs
           /\ ret' = r.val
           /\ err' = IF r.ok THEN "none" ELSE "OwnershipError"
    /\ UNCHANGED <<progVars, next_id, sent, runVars>>

NextCtx ==
    \/ \E o \in Observations : CtxSend(ObsTensor(o))
    \/ \E h \in DOMAIN sent : CtxRetrieve(h)

SpecCtx == Init /\ [][NextCtx]_vars

\* ================================================================== claims
InEpisode == {"sa_send", "sa_forward", "sa_get_probs", "sa_sample",
              "sa_get_state", "env_step", "append_total"}
AfterLoop == {"policy_get", "clear", "report", "done"}
BufferEmpty == episode_log_probs = <<>> /\ episode_raw_rewards = <<>>
Owned == DOMAIN bob_objects
AllParams(o) == \A p \in Params : policy_owner[p] = o

\* C1: where update_policy is about to be called the two buffer sequences
\* have the same length, the number of env.step calls of the episode; where it
\* has just returned both are empty.
C1_BufferAlignedAtUpdate ==
    /\ pc = "update" =>
         /\ Len(episode_log_probs) = Len(episode_raw_rewards)
         /\ Len(episode_raw_rewards) = env_steps
    /\ pc = "updated" => BufferEmpty

\* a second episode of several steps is about to be updated (the first
\* update has returned and emptied the buffer)
C1_Witness ==
    /\ pc = "update"
    /\ episode >= 1
    /\ env_steps >= 2
    /\ Len(episode_log_probs) = env_steps

\* C2: once the run is complete (all episodes done, policy.get() and
\* bob.clear_objects() executed) bob holds no tensor.
C2_RemoteEmptyAtRunComplete ==
    pc \in {"report", "done"} => Cardinality(Owned) = 0

\* a complete run of several episodes, the last one of several steps
C2_Witness ==
    /\ pc = "done"
    /\ updates = NumEpisodes
    /\ updates >= 2
    /\ env_steps >= 2
    /\ Owned = {}

\* C3: all parameters of the policy have one owner, Local or Remote: Local
\* before policy.send(bob), Remote (and held by bob) from then until
\* policy.get(), Local (and not held by bob) afterwards.
C3_ParametersShareOneOwner ==
    /\ AllParams("Local") \/ AllParams("Remote")
    /\ \A p \in Params :
         policy_owner[p] = "Remote" <=>
            \E h \in Owned : bob_objects[h] = ParamTensor(p)
    /\ \A p \in Params :
         policy_owner[p] = "Remote" <=> policy_ptr[p] \in Owned
    /\ pc = "send_policy" => AllParams("Local")
    /\ pc \in InEpisode \cup {"reset", "update", "updated", "policy_get", "aborted"}
         => AllParams("Remote")
    /\ pc \in {"clear", "report", "done"} => AllParams("Local")

\* the policy is on bob while an update is about to run in a later episode
C3_Witness ==
    /\ pc = "update"
    /\ episode >= 1
    /\ param_ver >= 1
    /\ AllParams("Remote")

\* C4: on every exit of the run, failure included, bob holds no tensor.
C4_ClearOnEveryExit ==
    pc \in {"done", "aborted"} => Owned = {}

\* C5: the reward history gets one entry per episode, then update_policy
\* runs once, then the next reset happens; the run completes only after
\* NumEpisodes episodes, each recorded and updated once.
C5_EpisodeOrder ==
    /\ pc = "send_policy" => resets = 0 /\ updates = 0 /\ total_rewards = <<>>
    /\ pc = "reset" =>
         resets = episode /\ Len(total_rewards) = episode /\ updates = episode
    /\ pc \in InEpisode =>
         resets = episode + 1 /\ Len(total_rewards) = episode /\ updates = episode
    /\ pc = "update" =>
         resets = episode + 1 /\ Len(total_rewards) = episode + 1 /\ updates = episode
    /\ pc = "updated" =>
         resets = episode + 1 /\ Len(total_rewards) = episode + 1
                              /\ updates = episode + 1
    /\ pc \in AfterLoop =>
         /\ episode = NumEpisodes
         /\ resets = NumEpisodes
         /\ Len(total_rewards) = NumEpisodes
         /\ updates = NumEpisodes

\* the run is complete after several episodes
C5_Witness ==
    /\ pc = "report"
    /\ Len(total_rewards) >= 2
    /\ updates = Len(total_rewards)
    /\ resets = updates

\* C6: get on a pointer returns the tensor that was sent under it and bob no
\* longer holds it; get on a pointer that was already got fails with
\* OwnershipError and leaves what bob holds unchanged.
C6_RetrieveReturnsWhatWasSent ==
    [][\A h \in DOMAIN sent :
         CtxRetrieve(h) =>
            IF h \in Owned
            THEN /\ ret' = sent[h]
                 /\ err' = "none"
                 /\ h \notin DOMAIN bob_objects'
                 /\ \A k \in Owned \ {h} :
                      k \in DOMAIN bob_objects' /\ bob_objects'[k] = sent[k]
            ELSE /\ err' = "OwnershipError"
                 /\ bob_objects' = bob_objects]_vars

\* a second get on a pointer has failed while bob still holds other tensors,
\* after a first get that returned what was sent
C6_Witness ==
    /\ err = "OwnershipError"
    /\ Owned # {}
    /\ \E h \in DOMAIN sent : h \notin Owned
    /\ \A k \in Owned : bob_objects[k] = sent[k]

\* C7 as stated: a select_action call that has returned made one send and
\* one get.
C7_OneCrossingInOneOut ==
    pc = "env_step" => n_send = 1 /\ n_get = 1

\* C7 amended: a select_action call that has returned made one send (the
\* observation) and two gets (the probabilities, then the observation); a
\* call ended by a sampling failure made one send and one get.
C7_OneSendTwoGets ==
    /\ pc = "env_step" => n_send = 1 /\ n_get = 2
    /\ err = "DistributionError" => n_send = 1 /\ n_get = 1

\* select_action has returned in a later step of an episode
C7_Witness ==
    /\ pc = "env_step"
    /\ step >= 1
    /\ n_send = 1
    /\ n_get = 2

\* C8: whenever update_policy has been left, by return or by exception, the
\* buffer is empty.
C8_BufferClearedOnEveryExit ==
    (pc = "updated" \/ err = "UpdateError") => BufferEmpty

\* C9: a sampling failure ends the run: the failing step appends no
\* log-probability, nothing runs afterwards, and the two buffer sequences
\* are never misaligned (the log-probabilities lead by at most the one step
\* in progress, and not at all once the failure is raised).
C9_SamplingFailureEndsRun ==
    /\ [][/\ err = "DistributionError" => UNCHANGED vars
          /\ err' = "DistributionError" =>
               /\ pc' = "aborted"
               /\ UNCHANGED <<loopVars, bufVars, env_steps, updates, resets>>]_vars
    /\ [](err = "DistributionError" =>
            /\ pc = "aborted"
            /\ Len(episode_log_probs) = Len(episode_raw_rewards)
            /\ Len(episode_raw_rewards) = env_steps)
    /\ [](Len(episode_log_probs) - Len(episode_raw_rewards) \in {0, 1})

\* sampling failed in a later step of a later episode
C9_Witness ==
    /\ err = "DistributionError"
    /\ pc = "aborted"
    /\ episode >= 1
    /\ env_steps >= 1
    /\ ~probs.valid

\* C10: for an episode of one step the normalizer does not divide by an
\* undefined standard deviation: its output is a number.
C10_SingleStepNormalized ==
    Len(discounted_rewards) = 1 => ~discounted_rewards[1].nan

\* C11: the value recorded for an episode is the plain sum of the rewards
\* env.step returned in it, and the printed mean and max are those of the
\* recorded totals: the max is one of them and no smaller than any, the mean
\* is all the run's rewards over the number of episodes, to the nearest
\* hundredth.
C11_RecordedTotalsAndReport ==
    /\ pc = "update" =>
         total_rewards[Len(total_rewards)] = SeqSum(episode_raw_rewards)
    /\ pc = "done" =>
         LET n == Len(total_rewards)
             d == n * reported.mean_cents - 100 * run_rewards
         IN  /\ \E i \in 1..n : total_rewards[i] = reported.max
             /\ \A i \in 1..n : total_rewards[i] <= reported.max
             /\ 2 * d <= n
             /\ -2 * d <= n

\* a run whose episodes earned different totals has been reported
C11_Witness ==
    /\ pc = "done"
    /\ Len(total_rewards) >= 2
    /\ total_rewards[1] = 1
    /\ total_rewards[2] = 2
    /\ reported.max >= 2
    /\ run_rewards >= 3

\* C12: the returns update_policy gets before normalizing are as many as the
\* rewards and in their order, the last is the last reward, each earlier one
\* is its reward plus 0.95 times the next return; for rewards 1, 1, 1 they
\* are 2.8525, 1.95, 1.0.
C12_DiscountedReturns ==
    [][pc = "update" /\ pc' # "update" =>
         LET r == episode_raw_rewards
             G == discounted_list'
             T == Len(r)
         IN  /\ Len(G) = T
             /\ T > 0 => G[T] = r[T] * Scale
             /\ \A t \in 1..(T - 1) :
                  100 * G[t] = 100 * r[t] * Scale + DiscountPct * G[t + 1]
             /\ r = <<1, 1, 1>> =>
                  G = <<28525 * (Scale \div 10000), 19500 * (Scale \div 10000),
                        10000 * (Scale \div 10000)>>]_vars

\* update_policy has run on the rewards 1, 1, 1
C12_Witness ==
    /\ pc = "updated"
    /\ Len(discounted_list) = 3
    /\ discounted_list[1] = 28525 * (Scale \div 10000)
    /\ discounted_list[3] = Scale

\* C13: at the end of the run the policy is got back, then bob is cleared,
\* then the statistics are printed; bob is cleared once, never while it
\* holds the policy, so no parameter is destroyed and the finished run has
\* the policy Local with every optimizer step in it.
C13_GetThenClearThenReport ==
    /\ \A p \in Params : policy_owner[p] # "Destroyed"
    /\ clears = (IF pc \in {"report", "done"} THEN 1 ELSE 0)
    /\ pc = "clear" => AllParams("Local")
    /\ reported # NoReport <=> pc = "done"
    /\ pc = "done" =>
         /\ AllParams("Local")
         /\ \A p \in Params : policy_ptr[p] \notin Owned
         /\ param_ver = NumEpisodes

\* a run of several episodes is complete: cleared once, policy back
C13_Witness ==
    /\ pc = "done"
    /\ clears = 1
    /\ AllParams("Local")
    /\ param_ver >= 2
    /\ reported # NoReport

C15_ParametersChangeOnlyInUpdate ==
    /\ [][param_ver' # param_ver =>
            /\ pc = "update"
            /\ pc' = "updated"
            /\ param_ver' = param_ver + 1
            /\ \A i \in 1..Len(episode_log_probs) :
                 episode_log_probs[i].ver = param_ver]_vars
    /\ [](\A i \in 1..Len(episode_log_probs) : episode_log_probs[i].ver = param_ver)
    /\ [](pc \in InEpisode \cup {"reset", "update"} => param_ver = episode)

\* a later episode's update is about to run on several log-probabilities,
\* all from the parameters the first update left
C15_Witness ==
    /\ pc = "update"
    /\ param_ver >= 1
    /\ Len(episode_log_probs) >= 2
    /\ \A i \in 1..Len(episode_log_probs) : episode_log_probs[i].ver = param_ver

InSelectAction == {"sa_send", "sa_forward", "sa_get_probs", "sa_sample",
                   "sa_get_state"}
PolicyIds == {policy_ptr[p] : p \in Params}

\* C16: whenever select_action is not running (between steps and between
\* episodes) bob holds the policy's parameters and nothing else: the
\* observation and the distribution of every finished call were got back.
C16_RemoteHoldsOnlyPolicyBetweenCalls ==
    pc \in {"reset", "sa_send", "env_step", "append_total", "update", "updated",
            "policy_get"} =>
        /\ Owned = PolicyIds
        /\ Cardinality(Owned) = Len(ParamSeq)

\* a later call of a later episode is about to start, after many ids were
\* handed out, and bob holds four tensors
C16_Witness ==
    /\ pc = "sa_send"
    /\ episode >= 1
    /\ step >= 1
    /\ next_id > Len(ParamSeq) + 6
    /\ Cardinality(Owned) = Len(ParamSeq)

\* C17: when policy(state) runs, bob holds the policy and the observation;
\* the distribution is on bob, and not local, until probs.get(); no pointer
\* is used after it was got, so no OwnershipError is ever raised.
C17_ForwardRunsOnBob ==
    /\ pc = "sa_forward" =>
         /\ AllParams("Remote")
         /\ PolicyIds \subseteq Owned
         /\ state_ptr \in Owned
         /\ bob_objects[state_ptr] = ObsTensor(state)
    /\ pc = "sa_get_probs" =>
         /\ probs_ptr \in Owned
         /\ bob_objects[probs_ptr].kind = "probs"
         /\ bob_objects[probs_ptr].val = state
         /\ probs = NoTensor
    /\ pc \in {"sa_sample", "sa_get_state"} =>
         /\ probs_ptr \notin Owned
         /\ probs.kind = "probs"
         /\ state_ptr \in Owned
    /\ pc \in InSelectAction => state_ptr \notin PolicyIds
    /\ err # "OwnershipError"

\* the distribution of a later step is on bob, waiting to be got
C17_Witness ==
    /\ pc = "sa_get_probs"
    /\ step >= 1
    /\ probs_ptr \in Owned
    /\ state_ptr \in Owned
    /\ probs = NoTensor

\* C18: an episode takes at least one and at most MaxSteps steps; it ends at
\* the first step env.step reports done, or at the step limit; no action is
\* selected after a done; the buffer is not empty when update_policy runs.
C18_EpisodeLength ==
    /\ pc \in InSelectAction \cup {"env_step"} =>
         /\ env_steps = step
         /\ step < MaxSteps
         /\ env_steps > 0 => ~done
    /\ pc \in {"append_total", "update"} =>
         /\ env_steps = step + 1
         /\ 1 <= env_steps
         /\ env_steps <= MaxSteps
         /\ done \/ env_steps = MaxSteps
    /\ pc = "update" =>
         /\ Len(episode_log_probs) >= 1
         /\ Len(episode_raw_rewards) >= 1

\* an episode ended by done after several steps, before the limit
C18_Witness ==
    /\ pc = "update"
    /\ done
    /\ env_steps >= 2
    /\ env_steps < MaxSteps

\* C19: unless an operation fails, the run reaches its end (the policy got
\* back, bob cleared, the statistics printed), whatever the environment
\* does, one that never reports done included.
C19_RunCompletesUnlessFailure ==
    <>(pc = "done" \/ err # "none")

\* a complete run in which every episode ran to the step limit
C19_Witness ==
    /\ pc = "done"
    /\ err = "none"
    /\ ~done
    /\ run_rewards = NumEpisodes * MaxSteps

====
